---- MODULE Spec2Model ----
(***************************************************************************)
(* The two build pipelines of captain_cmd:                                 *)
(*   backend "A"  build.py                   (Nuitka)                      *)
(*   backend "B"  build_with_pyinstaller.py  (PyInstaller)                 *)
(* The state is the part of the working directory the scripts touch, the   *)
(* position of the running script, what it printed and how it ended.       *)
(* Every file-system call the scripts guard (try/except, ignore_errors) or *)
(* leave unguarded may succeed or fail; the backend and the installer are  *)
(* external processes whose result is chosen nondeterministically.         *)
(***************************************************************************)
EXTENDS Integers, Sequences, FiniteSets, TLC

\* Number of successive runs of the same pipeline in one working directory.
MaxRuns == 2

VARIABLES
    backend,      \* "A" (build.py) or "B" (build_with_pyinstaller.py)
    system,       \* platform.system()
    installed,    \* the backend package is importable
    fs,           \* the working directory: path -> node
    run,          \* number of the current run
    pc,           \* position of the script in the current run
    ci,           \* index of the clean() loop
    output_path,  \* B: the value build() returned (None, or a path)
    status,       \* "running", "exit0", "sys_exit1", "uncaught"
    steps,        \* components entered in this run, in order
    log,          \* lines printed in this run
    faults,       \* file-system calls that failed in this run
    prior         \* what lay at the canonical target when the normalizer ran

vars == <<backend, system, installed, fs, run, pc, ci, output_path, status,
          steps, log, faults, prior>>

----------------------------------------------------------------------------
\* Paths are sequences of names relative to the working directory.

APP_NAME == "captain_cmd"
OUTPUT_DIR == <<".build">>
WORK_DIR == OUTPUT_DIR \o <<"pyinstaller-work">>
config_template == <<"config.example.toml">>
None == <<>>

app_bundle_src == OUTPUT_DIR \o <<"captain_cmd.app">>
folder_src == OUTPUT_DIR \o <<APP_NAME>>
app_target == OUTPUT_DIR \o <<"main.app">>
folder_target == OUTPUT_DIR \o <<"main.dist">>

\* The names a build artifact can carry in the output root.
BackendNames == {"captain_cmd", "captain_cmd.app"}
CanonicalNames == {"main.dist", "main.app"}
ArtifactNames == BackendNames \cup CanonicalNames

\* What the model tracks below an artifact root.
MacOS == <<"Contents", "MacOS">>
SubPaths == {<<>>, <<"config.toml">>, <<"Contents">>, MacOS, MacOS \o <<"config.toml">>}

\* An artifact root: directly in the output root, or where shutil.move puts a
\* source when its destination is a directory that is still there.
ArtifactRoots ==
    {OUTPUT_DIR \o <<n>> : n \in ArtifactNames}
        \cup {folder_target \o <<APP_NAME>>, app_target \o <<"captain_cmd.app">>}

TopPaths ==
    {<<n>> : n \in {".build", "build", "dist", "main.build", "main.dist",
                     "main.app", "main.onefile-build", "config.example.toml"}}

Paths ==
    TopPaths \cup {WORK_DIR, OUTPUT_DIR \o <<"config.toml">>}
        \cup {r \o s : r \in ArtifactRoots, s \in SubPaths}

\* A node: its kind, who wrote it, and in which run (0: before the first run).
Absent == [k |-> "none", w |-> "none", r |-> 0]
Node(k, w, r) == [k |-> k, w |-> w, r |-> r]

IsPrefix(p, q) == Len(p) <= Len(q) /\ SubSeq(q, 1, Len(p)) = p
Suffix(q, p) == SubSeq(q, Len(p) + 1, Len(q))
Last(p) == p[Len(p)]

exists(f, p) == f[p].k # "none"
isdir(f, p) == f[p].k = "dir"
isfile(f, p) == f[p].k = "file"

\* shutil.rmtree(p) when it succeeds: the whole tree is gone.
rmtree(f, p) == [q \in Paths |-> IF IsPrefix(p, q) THEN Absent ELSE f[q]]

\* os.remove(p) when it succeeds.
remove(f, p) == [f EXCEPT ![p] = Absent]

\* os.makedirs(p, exist_ok=True) creating p (p is absent).
mkdir(f, p, r) == [f EXCEPT ![p] = Node("dir", "mkdir", r)]

\* os.rename(src, dst): the tree at src becomes the tree at dst.
rename(f, src, dst) ==
    [q \in Paths |->
        IF IsPrefix(src, q) THEN Absent
        ELSE IF IsPrefix(dst, q)
             THEN IF src \o Suffix(q, dst) \in Paths
                  THEN f[src \o Suffix(q, dst)] ELSE Absent
             ELSE f[q]]

----------------------------------------------------------------------------
\* The working directory before the first run.

OldDir == Node("dir", "old", 0)
OldFile == Node("file", "old", 0)

Workspace(dirs, files) ==
    [p \in Paths |-> IF p \in dirs THEN OldDir
                     ELSE IF p \in files THEN OldFile ELSE Absent]

\* What an earlier build may have left at the output root: nothing, a file,
\* an empty directory, a seeded flat artifact, a seeded bundle, or a plain
\* file under a canonical name.
OutputRootShapes ==
    { [dirs |-> {}, files |-> {}],
      [dirs |-> {}, files |-> {OUTPUT_DIR}],
      [dirs |-> {OUTPUT_DIR}, files |-> {}],
      [dirs |-> {OUTPUT_DIR, folder_target},
       files |-> {folder_target \o <<"config.toml">>}],
      [dirs |-> {OUTPUT_DIR, app_target, app_target \o <<"Contents">>,
                 app_target \o MacOS},
       files |-> {app_target \o MacOS \o <<"config.toml">>}],
      [dirs |-> {OUTPUT_DIR}, files |-> {folder_target}],
      [dirs |-> {OUTPUT_DIR}, files |-> {app_target}] }

\* The other paths the cleaners list are what the backends leave behind: at
\* most one of them is there, as a directory, or a plain file named build.
ListedOther ==
    {<<n>> : n \in {"build", "dist", "main.build", "main.dist", "main.app",
                     "main.onefile-build"}}

OtherShapes ==
    {[dirs |-> {}, files |-> {}], [dirs |-> {}, files |-> {<<"build">>}]}
        \cup {[dirs |-> {p}, files |-> {}] : p \in ListedOther}

Systems == {"Windows", "Linux", "Darwin"}

Init ==
    /\ backend \in {"A", "B"}
    /\ system \in Systems
    /\ installed \in BOOLEAN
    /\ \E o \in OutputRootShapes, t \in OtherShapes, tmpl \in BOOLEAN :
          fs = Workspace(o.dirs \cup t.dirs,
                         o.files \cup t.files
                             \cup (IF tmpl THEN {config_template} ELSE {}))
    /\ run = 1
    /\ pc = "ensure"
    /\ ci = 1
    /\ output_path = None
    /\ status = "running"
    /\ steps = <<>>
    /\ log = {}
    /\ faults = {}
    /\ prior = "none"

----------------------------------------------------------------------------
\* What the scripts print, as <<kind, path>>.

Msg(kind, p) == <<kind, p>>
Say(kind) == <<kind, <<>>>>

\* An exception nothing catches ends the interpreter with status 1, as does
\* sys.exit(1). The faults are the calls that failed in this run: "pip" (the
\* installer), "backend" (the build subprocess), "rmtree" and "remove" (the
\* cleaner), "makedirs", "replace" (the normalizer's removal), "move", "copy2".
ExitCode(s) == IF s = "exit0" THEN 0 ELSE 1

Terminated == pc = "done"

\* Faulty variant: clean() called after build().
PipelineCleanAfterBuild(b) ==
    IF b = "A" THEN <<"ensure", "build", "clean", "post_build">>
    ELSE <<"ensure", "build", "clean", "normalize", "post_build">>

\* __main__: the order in which each script calls its steps.
Pipeline(b) ==
    IF b = "A" THEN <<"ensure", "clean", "build", "post_build">>
    ELSE <<"ensure", "clean", "build", "normalize", "post_build">>

Position(b, at) == CHOOSE i \in 1..Len(Pipeline(b)) : Pipeline(b)[i] = at

NextPc(b, at) ==
    IF Position(b, at) = Len(Pipeline(b)) THEN "done"
    ELSE Pipeline(b)[Position(b, at) + 1]

\* The component a position belongs to.
Component(at) ==
    CASE at = "ensure" -> "Ensurer"
      [] at = "clean" -> "Cleaner"
      [] at = "build" -> "Invoker"
      [] at = "normalize" -> "Normalizer"
      [] at = "post_build" -> "Seeder"

\* The run ends here: with status s.
End(s) ==
    /\ pc' = "done"
    /\ status' = s

\* The step returned: the script goes on with the next one, and ends with
\* status 0 after the last one.
Return ==
    /\ pc' = NextPc(backend, pc)
    /\ status' = IF NextPc(backend, pc) = "done" THEN "exit0" ELSE status

----------------------------------------------------------------------------
\* Dependency Ensurer: import the backend package; install it when the
\* import fails. check_call raises when pip fails, and nothing catches it.

\* Faulty variant: the installer is run with subprocess.call, its status ignored.
InstallerFailureIgnored == Return

\* check_call raises CalledProcessError and the script has no handler.
InstallerFailed == End("uncaught")

ensure_installed ==
    /\ pc = "ensure"
    /\ steps' = Append(steps, Component(pc))
    /\ \/ /\ installed
          /\ Return
          /\ UNCHANGED <<installed, log, faults>>
       \/ /\ ~installed
          /\ log' = log \cup {Say("Installing")}
          /\ \/ /\ installed' = TRUE
                /\ faults' = faults
                /\ Return
             \/ /\ installed' = FALSE
                /\ faults' = faults \cup {Say("pip")}
                /\ InstallerFailed
    /\ UNCHANGED <<backend, system, fs, run, ci, output_path, prior>>

----------------------------------------------------------------------------
\* Workspace Cleaner.

dirs_to_remove ==
    <<OUTPUT_DIR, <<"build">>, <<"main.build">>, <<"main.dist">>,
      <<"main.onefile-build">>>>

paths ==
    <<OUTPUT_DIR, <<"build">>, <<"dist">>, <<"main.dist">>, <<"main.app">>>>

\* The loop goes to the next path, and clean() returns after the last one.
NextPath(list) ==
    IF ci < Len(list)
    THEN ci' = ci + 1 /\ pc' = pc /\ status' = status
    ELSE ci' = 1 /\ Return

\* One path of build.py's loop. rmtree raises on a file (it is no
\* directory) and may raise on a directory; the loop catches and logs it.
RemoveA(f, d, ok) ==
    IF ~exists(f, d) THEN [fs |-> f, log |-> {}, faults |-> {}]
    ELSE IF isdir(f, d) /\ ok
         THEN [fs |-> rmtree(f, d), log |-> {Msg("Removed", d)}, faults |-> {}]
         ELSE [fs |-> f, log |-> {Msg("Failed to remove", d)},
               faults |-> {Msg("rmtree", d)}]

clean_A ==
    /\ pc = "clean"
    /\ backend = "A"
    /\ steps' = IF ci = 1 THEN Append(steps, Component(pc)) ELSE steps
    /\ \E ok \in BOOLEAN :
          LET out == RemoveA(fs, dirs_to_remove[ci], ok) IN
          /\ fs' = out.fs
          /\ log' = log \cup out.log
          /\ faults' = faults \cup out.faults
    /\ NextPath(dirs_to_remove)
    /\ UNCHANGED <<backend, system, installed, run, output_path, prior>>

\* One path of build_with_pyinstaller.py's loop. rmtree(ignore_errors=True)
\* never raises and "Removed directory" is printed after it in any case; a
\* failing os.remove is passed over in silence.
RemoveB(f, path, ok) ==
    IF isdir(f, path)
    THEN [fs |-> IF ok THEN rmtree(f, path) ELSE f,
          log |-> {Msg("Removed directory", path)},
          faults |-> IF ok THEN {} ELSE {Msg("rmtree", path)}]
    ELSE IF isfile(f, path)
         THEN IF ok
              THEN [fs |-> remove(f, path), log |-> {Msg("Removed file", path)},
                    faults |-> {}]
              ELSE [fs |-> f, log |-> {}, faults |-> {Msg("remove", path)}]
         ELSE [fs |-> f, log |-> {}, faults |-> {}]

clean_B ==
    /\ pc = "clean"
    /\ backend = "B"
    /\ steps' = IF ci = 1 THEN Append(steps, Component(pc)) ELSE steps
    /\ \E ok \in BOOLEAN :
          LET out == RemoveB(fs, paths[ci], ok) IN
          /\ fs' = out.fs
          /\ log' = log \cup out.log
          /\ faults' = faults \cup out.faults
    /\ NextPath(paths)
    /\ UNCHANGED <<backend, system, installed, run, output_path, prior>>

----------------------------------------------------------------------------
\* Backend Invoker.

get_os_specific_flags(sys) ==
    IF sys = "Darwin" THEN {"--macos-create-app-bundle"} ELSE {}

FlatTree == {<<>>}
BundleTree == {<<>>, <<"Contents">>, MacOS}

\* What a backend that exits with status 0 may have left in the output
\* root. Nuitka: <entry>.dist, or <entry>.app when asked for a bundle, or
\* neither (post_build expects that case). PyInstaller: <app-name>,
\* <app-name>.app, both or neither (the normalizer probes for each).
BackendOutputs(b, sys) ==
    IF b = "A"
    THEN {{}, {IF "--macos-create-app-bundle" \in get_os_specific_flags(sys)
               THEN [root |-> app_target, tree |-> BundleTree]
               ELSE [root |-> folder_target, tree |-> FlatTree]}}
    ELSE SUBSET {[root |-> folder_src, tree |-> FlatTree],
                 [root |-> app_bundle_src, tree |-> BundleTree]}

\* The backend replaces what lay at each output it writes, creating the
\* output directory when it is missing.
Produce(f, outs, r) ==
    [q \in Paths |->
        IF \E o \in outs : IsPrefix(o.root, q)
        THEN IF \E o \in outs : q \in {o.root \o t : t \in o.tree}
             THEN Node("dir", "backend", r) ELSE Absent
        ELSE IF q = OUTPUT_DIR /\ ~exists(f, q) THEN Node("dir", "backend", r)
        ELSE f[q]]

\* What the subprocess may have done to the working directory when it
\* exits with status 0, and when it exits non-zero (then it may also have
\* written nothing at all).
Built(f, b, sys, r) == {Produce(f, outs, r) : outs \in BackendOutputs(b, sys)}

Broken(f, b, sys, r) == {f} \cup Built(f, b, sys, r)

\* Faulty variant: the handler prints the error and forgets sys.exit(1).
BuildFailedNoExit ==
    /\ log' = log \cup {Say("ERROR")}
    /\ Return

\* except subprocess.CalledProcessError: print the error and sys.exit(1).
BuildFailed ==
    /\ log' = log \cup {Say("ERROR")}
    /\ End("sys_exit1")

\* build.py build(): the backend cannot write below a regular file.
build_A ==
    /\ pc = "build"
    /\ backend = "A"
    /\ steps' = Append(steps, Component(pc))
    /\ \/ /\ BuildFailed
          /\ fs' \in IF isfile(fs, OUTPUT_DIR) THEN {fs}
                     ELSE Broken(fs, backend, system, run)
          /\ faults' = faults \cup {Say("backend")}
       \/ /\ ~isfile(fs, OUTPUT_DIR)
          /\ fs' \in Built(fs, backend, system, run)
          /\ log' = log \cup {Say("SUCCESS")}
          /\ faults' = faults
          /\ Return
    /\ UNCHANGED <<backend, system, installed, run, ci, output_path, prior>>

\* os.makedirs(p, exist_ok=True): nothing to do for a directory, an error
\* for a file, and otherwise it creates p or fails.
makedirs(f, p, ok, r) ==
    IF isdir(f, p) THEN [raised |-> FALSE, fs |-> f]
    ELSE IF isfile(f, p) \/ ~ok THEN [raised |-> TRUE, fs |-> f]
    ELSE [raised |-> FALSE, fs |-> mkdir(f, p, r)]

\* build_with_pyinstaller.py build(), up to the end of the subprocess.
build_B ==
    /\ pc = "build"
    /\ backend = "B"
    /\ steps' = Append(steps, Component(pc))
    /\ \E ok1, ok2 \in BOOLEAN :
          LET m1 == makedirs(fs, OUTPUT_DIR, ok1, run)
              m2 == makedirs(m1.fs, WORK_DIR, ok2, run)
          IN  IF m1.raised \/ m2.raised
              THEN /\ fs' = IF m1.raised THEN m1.fs ELSE m2.fs
                   /\ faults' = faults \cup
                          {Msg("makedirs", IF m1.raised THEN OUTPUT_DIR ELSE WORK_DIR)}
                   /\ log' = log
                   /\ End("uncaught")
              ELSE \/ /\ BuildFailed
                      /\ fs' \in Broken(m2.fs, backend, system, run)
                      /\ faults' = faults \cup {Say("backend")}
                   \/ /\ fs' \in Built(m2.fs, backend, system, run)
                      /\ log' = log
                      /\ faults' = faults
                      /\ Return
    /\ UNCHANGED <<backend, system, installed, run, ci, output_path, prior>>

----------------------------------------------------------------------------
\* Output Normalizer (build_with_pyinstaller.py).

_replace_path(f, path, ok) ==
    IF isdir(f, path) THEN (IF ok THEN rmtree(f, path) ELSE f)
    ELSE IF isfile(f, path) THEN (IF ok THEN remove(f, path) ELSE f)
    ELSE f

\* shutil.move(src, dst) of a directory src: into dst when dst is a
\* directory (an error when the name is taken there), an error when dst is a
\* file, and otherwise a rename that succeeds or fails.
shutil_move(f, src, dst, ok) ==
    LET real_dst == IF isdir(f, dst) THEN dst \o <<Last(src)>> ELSE dst IN
    IF exists(f, real_dst) \/ ~ok
    THEN [raised |-> TRUE, fs |-> f]
    ELSE [raised |-> FALSE, fs |-> rename(f, src, real_dst)]

\* Faulty variant: the folder is probed before the bundle.
ProbedSourceFolderFirst(f) ==
    IF exists(f, folder_src) THEN folder_src
    ELSE IF exists(f, app_bundle_src) THEN app_bundle_src
    ELSE None

\* The output the normalizer picks: the bundle first, then the folder.
ProbedSource(f) ==
    IF exists(f, app_bundle_src) THEN app_bundle_src
    ELSE IF exists(f, folder_src) THEN folder_src
    ELSE None

TargetOf(src) == IF src = app_bundle_src THEN app_target ELSE folder_target

normalize_output_directory ==
    /\ pc = "normalize"
    /\ steps' = Append(steps, Component(pc))
    /\ LET src == ProbedSource(fs)
           target == TargetOf(src)
       IN  IF src = None
           THEN /\ output_path' = None
                /\ log' = log \cup {Say("WARNING output")}
                /\ Return
                /\ UNCHANGED <<fs, faults, prior>>
           ELSE \E okRm, okMv \in BOOLEAN :
                  LET f1 == _replace_path(fs, target, okRm)
                      mv == shutil_move(f1, src, target, okMv)
                  IN  /\ prior' = fs[target].k
                      /\ fs' = mv.fs
                      /\ faults' = faults
                            \cup (IF exists(f1, target) THEN {Msg("replace", target)} ELSE {})
                            \cup (IF mv.raised THEN {Msg("move", src)} ELSE {})
                      /\ IF mv.raised
                         THEN /\ End("uncaught")
                              /\ UNCHANGED <<output_path, log>>
                         ELSE /\ output_path' = target
                              /\ log' = log \cup {Say("SUCCESS")}
                              /\ Return
    /\ UNCHANGED <<backend, system, installed, run, ci>>

----------------------------------------------------------------------------
\* Config Seeder.

\* shutil.copy2(config_template, target): needs the directory of target.
Seeded(r) == Node("file", "seed", r)

copy2(f, target, r) == [f EXCEPT ![target] = Seeded(r)]

\* Faulty variant: no fallback to the output root.
DistDirNoFallback(f) == folder_target

\* build.py post_build(): it first looks for main.dist, which is all the
\* normalizing this script does (Nuitka names its output itself), and falls
\* back to the output root when main.dist is missing; then it seeds, and a
\* failing copy is caught and logged.
DistDirA(f) == IF exists(f, folder_target) THEN folder_target ELSE OUTPUT_DIR

post_build_A ==
    /\ pc = "post_build"
    /\ backend = "A"
    /\ steps' = steps \o <<"Normalizer", Component(pc)>>
    /\ LET dist_dir == DistDirA(fs)
           target_config == dist_dir \o <<"config.toml">>
           warn == IF exists(fs, folder_target) THEN {} ELSE {Say("WARNING dist")}
       IN  IF exists(fs, config_template)
           THEN \E ok \in BOOLEAN :
                  IF isdir(fs, dist_dir) /\ ok
                  THEN /\ fs' = copy2(fs, target_config, run)
                       /\ log' = log \cup warn
                             \cup {Msg("Copied", target_config), Msg("DONE", dist_dir)}
                       /\ faults' = faults
                  ELSE /\ fs' = fs
                       /\ log' = log \cup warn
                             \cup {Say("Failed to copy"), Msg("DONE", dist_dir)}
                       /\ faults' = faults \cup {Msg("copy2", target_config)}
           ELSE /\ log' = log \cup warn
                      \cup {Say("WARNING template"), Msg("DONE", dist_dir)}
                /\ UNCHANGED <<fs, faults>>
    /\ Return
    /\ UNCHANGED <<backend, system, installed, run, ci, output_path, prior>>

EndsWithApp(p) == Last(p) \in {"main.app", "captain_cmd.app"}

\* The directory build_with_pyinstaller.py seeds: Contents/MacOS of a
\* bundle that has it, the artifact itself otherwise.
TargetDirB(f, dist_path) ==
    IF EndsWithApp(dist_path) /\ exists(f, dist_path \o MacOS)
    THEN dist_path \o MacOS ELSE dist_path

\* post_build returns early without an artifact.
DistMissing(f, dist_path) == dist_path = None \/ ~exists(f, dist_path)

post_build_B ==
    /\ pc = "post_build"
    /\ backend = "B"
    /\ steps' = Append(steps, Component(pc))
    /\ IF DistMissing(fs, output_path)
       THEN /\ log' = log \cup {Say("WARNING dist")}
            /\ Return
            /\ UNCHANGED <<fs, faults>>
       ELSE IF ~exists(fs, config_template)
       THEN /\ log' = log \cup {Say("WARNING template")}
            /\ Return
            /\ UNCHANGED <<fs, faults>>
       ELSE \E ok \in BOOLEAN :
              LET target_dir == TargetDirB(fs, output_path)
                  md == makedirs(fs, target_dir, TRUE, run)
                  target_config == target_dir \o <<"config.toml">>
              IN  IF md.raised \/ ~ok
                  THEN /\ fs' = fs
                       /\ log' = log
                       /\ faults' = faults \cup {Msg("copy2", target_config)}
                       /\ End("uncaught")
                  ELSE /\ fs' = copy2(md.fs, target_config, run)
                       /\ log' = log \cup {Msg("Copied", target_config),
                                           Msg("DONE", output_path)}
                       /\ faults' = faults
                       /\ Return
    /\ UNCHANGED <<backend, system, installed, run, ci, output_path, prior>>

----------------------------------------------------------------------------
\* The same script is started again in the same working directory.

NewRun ==
    /\ pc = "done"
    /\ run < MaxRuns
    /\ run' = run + 1
    /\ pc' = "ensure"
    /\ ci' = 1
    /\ output_path' = None
    /\ status' = "running"
    /\ steps' = <<>>
    /\ log' = {}
    /\ faults' = {}
    /\ prior' = "none"
    /\ UNCHANGED <<backend, system, installed, fs>>

Next ==
    \/ ensure_installed
    \/ clean_A
    \/ clean_B
    \/ build_A
    \/ build_B
    \/ normalize_output_directory
    \/ post_build_A
    \/ post_build_B
    \/ NewRun

Spec == Init /\ [][Next]_vars

TypeOK ==
    /\ fs \in [Paths -> [k : {"none", "file", "dir"},
                         w : {"none", "old", "mkdir", "backend", "seed"},
                         r : 0..MaxRuns]]
    /\ pc \in {"ensure", "clean", "build", "normalize", "post_build", "done"}
    /\ status \in {"running", "exit0", "sys_exit1", "uncaught"}
    /\ run \in 1..MaxRuns
    /\ \A p \in Paths : exists(fs, p) /\ Len(p) > 1 =>
          isdir(fs, SubSeq(p, 1, Len(p) - 1))

----------------------------------------------------------------------------
\* Vocabulary of the properties.

Ran(c) == \E i \in 1..Len(steps) : steps[i] = c
Count(c) == Cardinality({i \in 1..Len(steps) : steps[i] = c})

\* config.toml files written in this run.
SeededNow == {p \in Paths : fs[p] = Seeded(run)}

\* Backend output of this run lying at or below a canonical target.
Normalized ==
    {p \in Paths : /\ fs[p] = Node("dir", "backend", run)
                   /\ IsPrefix(folder_target, p) \/ IsPrefix(app_target, p)}

\* Everything at or below the output root.
InOutputRoot == {p \in Paths : IsPrefix(OUTPUT_DIR, p)}

\* Artifact names present in the output root.
ArtifactsInRoot == {n \in ArtifactNames : exists(fs, OUTPUT_DIR \o <<n>>)}

\* Removals of the cleaner that failed in this run.
CleanFaults == {m \in faults : m[1] \in {"rmtree", "remove"}}

CleanList == IF backend = "A" THEN dirs_to_remove ELSE paths

SpecOrder == <<"Cleaner", "Ensurer", "Invoker", "Normalizer", "Seeder">>
CodeOrder == <<"Ensurer", "Cleaner", "Invoker", "Normalizer", "Seeder">>

----------------------------------------------------------------------------
\* C1 (as stated): in every run the components are entered in the order
\* Cleaner, Dependency Ensurer, Backend Invoker, Output Normalizer, Config
\* Seeder, none twice.
C1_CleanerFirst == IsPrefix(steps, SpecOrder)

\* C1 (amended): in every run the components are entered in the order
\* Dependency Ensurer, Cleaner, Backend Invoker, Output Normalizer, Config
\* Seeder: what has run so far is always a prefix of that order, so each
\* step starts after the one before it and none runs twice.
C1_EnsurerFirst == IsPrefix(steps, CodeOrder)

C1_Witness == pc = "done" /\ status = "exit0" /\ steps = CodeOrder /\ backend = "B"

\* C2: when the backend subprocess exits non-zero, an error is printed, the
\* run has ended with exit status 1, the backend was invoked once, and in
\* that run nothing was normalized (whatever output the backend left stays
\* under its own name) and no configuration file was seeded.
C2_BuildFailureIsFatal ==
    Say("backend") \in faults =>
        /\ Say("ERROR") \in log
        /\ pc = "done"
        /\ status = "sys_exit1"
        /\ ExitCode(status) = 1
        /\ Count("Invoker") = 1
        /\ ~Ran("Normalizer")
        /\ ~Ran("Seeder")
        /\ backend = "B" => Normalized = {}
        /\ SeededNow = {}

C2_Witness ==
    /\ Say("backend") \in faults
    /\ backend = "B"
    /\ exists(fs, config_template)
    /\ fs[folder_src] = Node("dir", "backend", run)

\* C3: when the backend package is not importable and the installer fails,
\* the run has ended with an uncaught error (status 1) before any build: the
\* backend was never invoked, nothing was written by it, nothing was
\* normalized and no configuration file was seeded.
C3_InstallerFailureIsFatal ==
    Say("pip") \in faults =>
        /\ pc = "done"
        /\ status = "uncaught"
        /\ ExitCode(status) # 0
        /\ ~installed
        /\ ~Ran("Invoker")
        /\ ~Ran("Normalizer")
        /\ ~Ran("Seeder")
        /\ \A p \in Paths : fs[p].r # run
        /\ SeededNow = {}

C3_Witness ==
    /\ Say("pip") \in faults
    /\ Say("Installing") \in log
    /\ exists(fs, folder_target)
    /\ exists(fs, config_template)

\* C4: a run ends with a non-zero status only after an environment error
\* (the installer failed) or a compilation error (the backend exited
\* non-zero); every other failure leaves exit status 0.
C4_OnlyInstallerAndBackendFatal ==
    pc = "done" /\ ExitCode(status) # 0 =>
        Say("pip") \in faults \/ Say("backend") \in faults

\* The backend exited with status 0 and the script did not find the output
\* it expects (A: .build/main.dist; B: .build/captain_cmd[.app]).
NormalizationMiss ==
    /\ pc = "done"
    /\ Ran("Seeder")
    /\ \/ backend = "A" /\ ~exists(fs, folder_target)
       \/ backend = "B" /\ output_path = None

NestedIn(target) ==
    IF target = app_target THEN app_target \o <<"captain_cmd.app">>
    ELSE folder_target \o <<APP_NAME>>

SourceOf(target) == IF target = app_target THEN app_bundle_src ELSE folder_src

\* C7: when normalize_output_directory has returned a path, whatever lay at
\* the canonical target before (nothing, a file or a directory): the path is
\* the canonical target, the target is the backend's output tree itself
\* (bundle at main.app, folder at main.dist), nothing is nested in it, and
\* the source path is gone.
C7_TargetIsBackendOutput ==
    pc = "post_build" /\ backend = "B" /\ output_path # None =>
        /\ output_path \in {folder_target, app_target}
        /\ fs[output_path] = Node("dir", "backend", run)
        /\ exists(fs, output_path \o MacOS) <=> output_path = app_target
        /\ ~exists(fs, NestedIn(output_path))
        /\ ~exists(fs, SourceOf(output_path))

\* C8: when the template exists and the run ends with status 0 with this
\* run's artifact in the output root (and no call failed), exactly one
\* config.toml was written: in Contents/MacOS of a bundle, directly in a
\* flat folder, and never outside the artifact.
C8_SeededInsideArtifact ==
    /\ pc = "done"
    /\ status = "exit0"
    /\ faults = {}
    /\ exists(fs, config_template)
    /\ Normalized # {}
    =>
    \/ /\ fs[app_target] = Node("dir", "backend", run)
       /\ SeededNow = {app_target \o MacOS \o <<"config.toml">>}
    \/ /\ fs[folder_target] = Node("dir", "backend", run)
       /\ ~exists(fs, app_target)
       /\ SeededNow = {folder_target \o <<"config.toml">>}

\* The clean() loop goes on to its next path, or returns to the build.
CleanGoesOn ==
    \/ pc' = "clean" /\ ci' = ci + 1
    \/ ci = Len(CleanList) /\ pc' = "build" /\ status' = "running"

\* A listed path that is missing is skipped: nothing changes and nothing is
\* printed.
MissingSkipped ==
    ~exists(fs, CleanList[ci]) => fs' = fs /\ log' = log /\ faults' = faults

\* C9: in the cleaner of both pipelines a missing path is
\* skipped without error, and a removal that fails is caught, logged as a
\* failure, and does not end the run: the loop goes on with the next path.
C9_RemovalFailureLogged ==
    /\ [](\A m \in CleanFaults :
            /\ Msg("Failed to remove", m[2]) \in log
            /\ ~(pc = "done" /\ ~Ran("Invoker")))
    /\ [][pc = "clean" => CleanGoesOn /\ MissingSkipped]_vars

\* C10: the prior contents of the output root are destroyed at the start of
\* every run and rebuilt: at the end of a run with exit status 0 everything
\* inside the output root was written by that run (so a second run ends as
\* a single run would), and no step ever changes the template.
C10_OutputRootRebuilt ==
    /\ [](pc = "done" /\ status = "exit0" =>
            \A p \in InOutputRoot \ {OUTPUT_DIR} : exists(fs, p) => fs[p].r = run)
    /\ [][fs'[config_template] = fs[config_template]]_vars

====
